---- MODULE Spec2Model ----
(***************************************************************************)
(* Model of src/main.py: a read-through proxy for sports odds.  A process  *)
(* wide TTL cache, three cached read endpoints, the upstream fetch, the    *)
(* bookmaker selector, the event normalizer and the weekly time window.    *)
(*                                                                         *)
(* Time is counted in whole seconds since a Monday 00:00 UTC.  Numbers of  *)
(* the upstream JSON (prices, points) are counted in halves, so that 7     *)
(* stands for 3.5 and -220 for -110: float() keeps the halves, int()       *)
(* truncates them.  A Python Optional is a sequence of length 0 or 1.      *)
(***************************************************************************)
EXTENDS Integers, Sequences, FiniteSets, TLC

VARIABLES clock, cache, apikey, pc, req, calls, out, nreq, call

vars == <<clock, cache, apikey, pc, req, calls, out, nreq, call>>

(* ------------------------------ bounds --------------------------------- *)
\* days of reference instants tried for the week window
MaxDays == 13
\* concurrent request slots of the interleaving specification
NSlots == 2
\* requests started in one behaviour of the interleaving specification
MaxReqs == 2
\* length of an upstream event list in the interleaving specification
MaxRawShort == 1
\* length of an upstream event list in the single request specification
MaxRaw == 3
\* length of a bookmaker list tried on choose_book
MaxBooks == 3
\* length of a spreads outcome list tried on map_event_to_game
MaxOutcomes == 3
\* cache_set calls in one behaviour of the cache specification
MaxSets == 2
\* clock advances in one behaviour
MaxTicks == 1

(* ------------------------------ config --------------------------------- *)
CACHE_TTL_SECS == 45
BOOK_PRIORITY == <<"DraftKings", "FanDuel", "BetMGM", "Caesars", "PointsBet (US)", "bet365">>
HOUR == 60 * 60
DAY == 24 * HOUR
WEEK == 7 * DAY

None == <<>>
Some(x) == <<x>>

(* ------------------------------ cache ---------------------------------- *)
Keys == {"nfl_weekend", "nfl_today", "cfb_weekend"}

\* _cache.get(key): an Optional entry [data, exp]
now_utc == clock

cache_get_inclusive(c, now, key) ==
    LET e == c[key]
    IN IF e # None /\ now <= e[1].exp THEN Some(e[1].data) ELSE None

cache_get(c, now, key) ==
    LET e == c[key]
    IN IF e # None /\ now < e[1].exp THEN Some(e[1].data) ELSE None

cache_set_noexpiry(c, now, key, data, ttl) ==
    [c EXCEPT ![key] = Some([data |-> data, exp |-> now])]

cache_set(c, now, key, data, ttl) ==
    [c EXCEPT ![key] = Some([data |-> data, exp |-> now + ttl])]

(* --------------------------- time window ------------------------------- *)
\* datetime.weekday(): Mon=0..Sun=6; second 0 of the model is a Monday 00:00
weekday(now) == (now \div DAY) % 7

\* .replace(hour=0, minute=0, second=0, microsecond=0)
midnight(t) == (t \div DAY) * DAY

football_week_window_wrongdays(now) ==
    LET monday == midnight(now - weekday(now) * DAY)
    IN [start |-> monday + 3 * DAY, end |-> monday + 7 * DAY]

football_week_window(now) ==
    LET wkday == weekday(now)
        monday == midnight(now - wkday * DAY)
        thursday == monday + 3 * DAY
        tuesday_next == monday + 8 * DAY
    IN [start |-> thursday, end |-> tuesday_next]

(* A commence_time value of the upstream JSON.                             *)
(*   k = "iso"    a timestamp with a UTC offset; z says it is written with *)
(*                the suffix Z; wall is its wall clock reading and off its *)
(*                offset, so that its instant is wall - off                *)
(*   k = "naive"  a timestamp without offset                               *)
(*   k = "bad"    a string that is no timestamp, such as "not-a-date"      *)
(*   k = "empty"  the empty string                                         *)
(*   k = "null"   JSON null                                                *)
(*   k = "absent" the key is missing                                       *)
CT(k, wall, off, z) == [k |-> k, wall |-> wall, off |-> off, z |-> z]
IsoZ(t) == CT("iso", t, 0, TRUE)
IsoOff(wall, off) == CT("iso", wall, off, FALSE)
Naive(wall) == CT("naive", wall, 0, FALSE)
BadStr == CT("bad", 0, 0, FALSE)
EmptyStr == CT("empty", 0, 0, FALSE)
Null == CT("null", 0, 0, FALSE)
Absent == CT("absent", 0, 0, FALSE)

\* ev.get("commence_time", ""): the default only replaces a missing key
get_commence(ev) == IF ev.commence_time.k = "absent" THEN EmptyStr ELSE ev.commence_time

\* x.replace("Z", "+00:00") then datetime.fromisoformat(x)
\*   r = "aware" | "naive" | "ValueError" | "AttributeError"
fromisoformat(ct) ==
    CASE ct.k = "null" -> [r |-> "AttributeError", wall |-> 0, off |-> 0]
      [] ct.k = "iso" -> [r |-> "aware", wall |-> ct.wall, off |-> ct.off]
      [] ct.k = "naive" -> [r |-> "naive", wall |-> ct.wall, off |-> 0]
      [] OTHER -> [r |-> "ValueError", wall |-> 0, off |-> 0]

instant(dt) == dt.wall - dt.off

\* dt.date(): the calendar day of the wall clock reading
date(dt) == dt.wall \div DAY

\* the result of a call that may raise: r = "ok" with value v, or the exception
Ret(v) == [r |-> "ok", v |-> v]
Raise(exc) == [r |-> exc, v |-> FALSE]

within_window(commence_iso, start, end) ==
    LET dt == fromisoformat(commence_iso)
    IN CASE dt.r = "AttributeError" -> Raise("AttributeError")
         [] dt.r = "ValueError" -> Ret(FALSE)
         [] dt.r = "naive" -> Raise("TypeError")
         [] OTHER -> Ret(start <= instant(dt) /\ instant(dt) <= end)

(* ------------------------- bookmaker selector -------------------------- *)
Max(S) == CHOOSE x \in S : \A y \in S : y <= x
Min(S) == CHOOSE x \in S : \A y \in S : x <= y

\* {key(x): x for x in s}.get(k), I the indices whose key is k: the last one wins
LastAt(s, I) == IF I = {} THEN None ELSE Some(s[Max(I)])
\* next((x for x in s if P(x)), None), I the indices that satisfy P: the first one
FirstAt(s, I) == IF I = {} THEN None ELSE Some(s[Min(I)])

choose_book_firstdup(bookmakers) ==
    IF bookmakers = <<>> THEN None
    ELSE LET by_name(n) == FirstAt(bookmakers, {i \in DOMAIN bookmakers : bookmakers[i].title = n})
             present == {i \in DOMAIN BOOK_PRIORITY : by_name(BOOK_PRIORITY[i]) # None}
         IN IF present # {} THEN by_name(BOOK_PRIORITY[Min(present)])
            ELSE Some(bookmakers[1])

choose_book(bookmakers) ==
    IF bookmakers = <<>> THEN None
    ELSE LET by_name(n) == LastAt(bookmakers, {i \in DOMAIN bookmakers : bookmakers[i].title = n})
             present == {i \in DOMAIN BOOK_PRIORITY : by_name(BOOK_PRIORITY[i]) # None}
         IN IF present # {} THEN by_name(BOOK_PRIORITY[Min(present)])
            ELSE Some(bookmakers[1])

(* --------------------------- event normalizer -------------------------- *)
(* A JSON value read as a number: t = "num" a number, "str" a string that  *)
(* float() parses, "badstr" a string it does not, "none" a missing or null *)
(* value.  h is the number in halves.                                      *)
JV(t, h) == [t |-> t, h |-> h]
Num(h) == JV("num", h)
NoVal == JV("none", 0)

\* int(x) of a float: truncation toward zero
trunc(h) == IF h >= 0 THEN h \div 2 ELSE -((-h) \div 2)

\* float(x): the number in halves, or the exception
float(x) ==
    CASE x.t \in {"num", "str"} -> [r |-> "ok", v |-> x.h]
      [] x.t = "badstr" -> [r |-> "ValueError", v |-> 0]
      [] OTHER -> [r |-> "TypeError", v |-> 0]

\* try: int(float(x)) except Exception: int(x), which raises the same way
american_int(x) ==
    IF float(x).r = "ok" THEN [r |-> "ok", v |-> trunc(float(x).v)]
    ELSE [r |-> float(x).r, v |-> 0]

abs(h) == IF h < 0 THEN -h ELSE h

\* str(name).lower().startswith(p)
lower_startswith(name, p) ==
    CASE p = "over" -> name \in {"Over", "over", "OVER"}
      [] p = "under" -> name \in {"Under", "under", "UNDER"}
      [] OTHER -> FALSE

\* markets.get(key): the last market of the book with that key
market(book, key) ==
    LastAt(book.markets, {i \in DOMAIN book.markets : book.markets[i].key = key})

\* the outcome of the map_event_to_game: t = "game" with g = <<Game>>,
\* t = "none" (return None), or the exception raised
Mapped(g) == [t |-> "game", g |-> <<g>>]
NoGame == [t |-> "none", g |-> <<>>]
MapRaise(exc) == [t |-> exc, g |-> <<>>]

\* lines 107-113: Some([home, away]), None (return None) or the exception
map_moneyline(ev, book) ==
    LET ml == market(book, "h2h")
    IN IF ml = None \/ ml[1].outcomes = <<>> THEN [t |-> "none", v |-> <<>>]
       ELSE LET os == ml[1].outcomes
                ml_out(n) == LastAt(os, {i \in DOMAIN os : os[i].name = n})
                ml_home == IF ml_out(ev.home_team) # None THEN ml_out(ev.home_team) ELSE ml_out("Home")
                ml_away == IF ml_out(ev.away_team) # None THEN ml_out(ev.away_team) ELSE ml_out("Away")
            IN IF ml_home = None \/ ml_away = None THEN [t |-> "none", v |-> <<>>]
               ELSE LET h == american_int(ml_home[1].price)
                        a == american_int(ml_away[1].price)
                    IN IF h.r # "ok" THEN [t |-> h.r, v |-> <<>>]
                       ELSE IF a.r # "ok" THEN [t |-> a.r, v |-> <<>>]
                       ELSE [t |-> "ok", v |-> <<[home |-> h.v, away |-> a.v]>>]

\* the spreads outcomes named after a side: name in (team, label)
spread_side(os, team, label) ==
    FirstAt(os, {i \in DOMAIN os : os[i].name \in {team, label}})

map_spread_tiehome(ev, book) ==
    LET sp == market(book, "spreads")
    IN IF sp = None \/ sp[1].outcomes = <<>> THEN [t |-> "none", v |-> <<>>]
       ELSE LET spread_home == spread_side(sp[1].outcomes, ev.home_team, "Home")
                spread_away == spread_side(sp[1].outcomes, ev.away_team, "Away")
            IN IF spread_home = None \/ spread_away = None THEN [t |-> "none", v |-> <<>>]
               ELSE LET home_point == float(spread_home[1].point)
                        away_point == float(spread_away[1].point)
                    IN IF home_point.r # "ok" THEN [t |-> home_point.r, v |-> <<>>]
                       ELSE IF away_point.r # "ok" THEN [t |-> away_point.r, v |-> <<>>]
                       ELSE LET fav == IF home_point.v <= away_point.v
                                       THEN [team |-> ev.home_team, pt |-> home_point.v,
                                             price |-> american_int(spread_home[1].price)]
                                       ELSE [team |-> ev.away_team, pt |-> away_point.v,
                                             price |-> american_int(spread_away[1].price)]
                            IN IF fav.price.r # "ok" THEN [t |-> fav.price.r, v |-> <<>>]
                               ELSE [t |-> "ok", v |-> <<[favorite |-> fav.team, line |-> abs(fav.pt),
                                                          price |-> fav.price.v]>>]

\* lines 116-127: Some([favorite, line, price]), None or the exception
map_spread(ev, book) ==
    LET sp == market(book, "spreads")
    IN IF sp = None \/ sp[1].outcomes = <<>> THEN [t |-> "none", v |-> <<>>]
       ELSE LET spread_home == spread_side(sp[1].outcomes, ev.home_team, "Home")
                spread_away == spread_side(sp[1].outcomes, ev.away_team, "Away")
            IN IF spread_home = None \/ spread_away = None THEN [t |-> "none", v |-> <<>>]
               ELSE LET home_point == float(spread_home[1].point)
                        away_point == float(spread_away[1].point)
                    IN IF home_point.r # "ok" THEN [t |-> home_point.r, v |-> <<>>]
                       ELSE IF away_point.r # "ok" THEN [t |-> away_point.r, v |-> <<>>]
                       ELSE LET fav == IF home_point.v < away_point.v
                                       THEN [team |-> ev.home_team, pt |-> home_point.v,
                                             price |-> american_int(spread_home[1].price)]
                                       ELSE [team |-> ev.away_team, pt |-> away_point.v,
                                             price |-> american_int(spread_away[1].price)]
                            IN IF fav.price.r # "ok" THEN [t |-> fav.price.r, v |-> <<>>]
                               ELSE [t |-> "ok", v |-> <<[favorite |-> fav.team, line |-> abs(fav.pt),
                                                          price |-> fav.price.v]>>]

\* lines 130-136: Some([line, over_price, under_price]), None or the exception
map_total(book) ==
    LET tot == market(book, "totals")
    IN IF tot = None \/ tot[1].outcomes = <<>> THEN [t |-> "none", v |-> <<>>]
       ELSE LET os == tot[1].outcomes
                over == FirstAt(os, {i \in DOMAIN os : lower_startswith(os[i].name, "over")})
                under == FirstAt(os, {i \in DOMAIN os : lower_startswith(os[i].name, "under")})
            IN IF over = None \/ under = None THEN [t |-> "none", v |-> <<>>]
               ELSE LET line == float(over[1].point)
                        op == american_int(over[1].price)
                        up == american_int(under[1].price)
                    IN IF line.r # "ok" THEN [t |-> line.r, v |-> <<>>]
                       ELSE IF op.r # "ok" THEN [t |-> op.r, v |-> <<>>]
                       ELSE IF up.r # "ok" THEN [t |-> up.r, v |-> <<>>]
                       ELSE [t |-> "ok", v |-> <<[line |-> line.v, over_price |-> op.v,
                                                  under_price |-> up.v]>>]

\* Game(...) validates its fields: kickoff_iso must be a string
map_event_to_game(ev, book) ==
    LET ml == map_moneyline(ev, book)
        sp == map_spread(ev, book)
        tot == map_total(book)
    IN CASE ml.t = "none" -> NoGame
         [] ml.t # "ok" -> MapRaise(ml.t)
         [] sp.t = "none" -> NoGame
         [] sp.t # "ok" -> MapRaise(sp.t)
         [] tot.t = "none" -> NoGame
         [] tot.t # "ok" -> MapRaise(tot.t)
         [] ev.commence_time.k \in {"absent", "null"} -> MapRaise("ValidationError")
         [] OTHER -> Mapped([week |-> 1, kickoff_iso |-> ev.commence_time,
                             home |-> ev.home_team, away |-> ev.away_team,
                             moneyline |-> ml.v[1], spread |-> sp.v[1], total |-> tot.v[1]])

(* ------------------------------ inputs --------------------------------- *)
\* the sequences over S of length at most n
SeqUpTo(S, n) == UNION {[1..k -> S] : k \in 0..n}

\* reference instants: every weekday of two weeks, at several times of day
Nows == {d * DAY + s : d \in 0..MaxDays, s \in {0, 1, 12 * HOUR, DAY - 1}}

\* commence_time values around the two ends of a window
CommencesAt(start, end) ==
    {IsoZ(t) : t \in {start - 1, start, start + 1, end - 1, end, end + 1}}
    \cup {IsoOff(t - 5 * HOUR, -5 * HOUR) : t \in {start - 1, start, end, end + 1}}
    \cup {Naive(start + 1), BadStr, EmptyStr, Null}

Outcome(name, price, point) == [name |-> name, price |-> price, point |-> point]
Market(key, outcomes) == [key |-> key, outcomes |-> outcomes]
Book(title, markets) == [title |-> title, markets |-> markets]
Event(home, away, ct, books) ==
    [home_team |-> home, away_team |-> away, commence_time |-> ct, bookmakers |-> books]

\* the markets of the example of the documentation: A -150 / B +130,
\* A -3.5 -110 / B +3.5 -110, Over 48.5 -105 / Under 48.5 -115
H2H == Market("h2h", <<Outcome("A", Num(-300), NoVal), Outcome("B", Num(260), NoVal)>>)
SPREADS == Market("spreads", <<Outcome("A", Num(-220), Num(-7)), Outcome("B", Num(-220), Num(7))>>)
TOTALS == Market("totals", <<Outcome("Over", Num(-210), Num(97)), Outcome("Under", Num(-230), Num(97))>>)

\* bookmaker lists for choose_book: titles in and out of the priority list,
\* two different bookmakers under each title
SelectorBooks ==
    {Book(t, m) : t \in {"DraftKings", "FanDuel", "bet365", "Unknown Book", "Other Book"},
                  m \in {<<>>, <<H2H>>}}
BookLists == SeqUpTo(SelectorBooks, MaxBooks)

\* spreads outcome lists for map_event_to_game
SpreadOutcomes ==
    {Outcome(n, pr, pt) : n \in {"A", "B", "Home", "Away"},
                          pr \in {Num(-220), JV("str", 211)},
                          pt \in {Num(-7), Num(0), Num(7)}}
\* h2h and totals markets that do and do not normalize
H2HVariants ==
    {<<H2H>>, <<>>, <<Market("h2h", <<>>)>>,
     <<Market("h2h", <<Outcome("Home", Num(-300), NoVal), Outcome("Away", JV("str", 261), NoVal)>>)>>,
     <<Market("h2h", <<Outcome("A", Num(-300), NoVal)>>)>>,
     <<Market("h2h", <<Outcome("A", NoVal, NoVal), Outcome("B", Num(260), NoVal)>>)>>,
     <<Market("h2h", <<Outcome("A", Num(-300), NoVal), Outcome("B", JV("badstr", 0), NoVal)>>)>>,
     <<Market("h2h", <<>>), H2H>>}
TotalsVariants ==
    {<<TOTALS>>, <<>>, <<Market("totals", <<>>)>>,
     <<Market("totals", <<Outcome("under", Num(-230), Num(97)), Outcome("OVER", Num(-211), Num(96))>>)>>,
     <<Market("totals", <<Outcome("Over", Num(-210), Num(97))>>)>>,
     <<Market("totals", <<Outcome("Over", Num(-210), NoVal), Outcome("Under", Num(-230), Num(97))>>)>>,
     <<Market("totals", <<Outcome("Over", Num(-210), Num(97)), Outcome("Under", NoVal, Num(97))>>)>>}
SpreadsVariants ==
    {<<SPREADS>>, <<>>, <<Market("spreads", <<>>)>>,
     <<SPREADS, Market("spreads", <<Outcome("B", Num(-230), Num(-3)), Outcome("A", Num(200), Num(3))>>)>>,
     <<Market("spreads", <<Outcome("A", Num(-220), JV("badstr", 0)), Outcome("B", Num(-220), Num(7))>>)>>,
     <<Market("spreads", <<Outcome("A", Num(-220), NoVal), Outcome("B", Num(-220), Num(7))>>)>>,
     <<Market("spreads", <<Outcome("A", Num(-220), Num(7)), Outcome("B", NoVal, Num(-7))>>)>>}

NormalizerBooks ==
    {Book("DraftKings", <<H2H, Market("spreads", os), TOTALS>>) : os \in SeqUpTo(SpreadOutcomes, MaxOutcomes)}
    \cup {Book("DraftKings", h \o sp \o t) : h \in H2HVariants, sp \in SpreadsVariants, t \in TotalsVariants}
NormalizerEvents ==
    {Event("A", "B", ct, <<>>) : ct \in {IsoZ(3 * DAY), Absent}}

(* ------------------------------ handlers ------------------------------- *)
\* lines 162-165, 181-184, 187-190: choose a book, normalize, append.
\* acc = [r |-> "ok" or the exception, games |-> the list so far]
append_mapped(acc, mapped) ==
    CASE mapped.t = "game" -> [acc EXCEPT !.games = Append(@, mapped.g[1])]
      [] mapped.t = "none" -> acc
      [] OTHER -> [acc EXCEPT !.r = mapped.t]

map_with(acc, ev, book) ==
    IF book = None THEN acc ELSE append_mapped(acc, map_event_to_game(ev, book[1]))

add_game(acc, ev) == map_with(acc, ev, choose_book(ev.bookmakers))

\* the loop of nfl_weekend and cfb_weekend: acc[i] is the state after raw[i];
\* an exception ends it
weekend_loop(raw, w) ==
    LET acc[i \in 0..Len(raw)] ==
            IF i = 0 THEN [r |-> "ok", games |-> <<>>]
            ELSE IF acc[i - 1].r # "ok" THEN acc[i - 1]
            ELSE LET inw == within_window(get_commence(raw[i]), w.start, w.end)
                 IN CASE inw.r # "ok" -> [acc[i - 1] EXCEPT !.r = inw.r]
                      [] ~inw.v -> acc[i - 1]
                      [] OTHER -> add_game(acc[i - 1], raw[i])
    IN acc[Len(raw)]

\* the first loop of nfl_today
today_loop(raw, today) ==
    LET acc[i \in 0..Len(raw)] ==
            IF i = 0 THEN [r |-> "ok", games |-> <<>>]
            ELSE IF acc[i - 1].r # "ok" THEN acc[i - 1]
            ELSE LET dt == fromisoformat(get_commence(raw[i]))
                 IN CASE dt.r = "AttributeError" -> [acc[i - 1] EXCEPT !.r = dt.r]
                      [] dt.r = "ValueError" -> acc[i - 1]
                      [] date(dt) # today -> acc[i - 1]
                      [] OTHER -> add_game(acc[i - 1], raw[i])
    IN acc[Len(raw)]

\* the order of Python strings on commence_time values: "" first, then the
\* timestamps by their text (the wall clock reading, then no suffix, "+hh:mm",
\* "-hh:mm", "Z"), then "not-a-date"
str_key(ct) ==
    CASE ct.k \in {"empty", "absent"} -> <<0, 0, 0, 0>>
      [] ct.k = "naive" -> <<1, ct.wall, 0, 0>>
      [] ct.k = "iso" /\ ct.z -> <<1, ct.wall, 3, 0>>
      [] ct.k = "iso" /\ ct.off >= 0 -> <<1, ct.wall, 1, ct.off>>
      [] ct.k = "iso" -> <<1, ct.wall, 2, -ct.off>>
      [] OTHER -> <<2, 0, 0, 0>>

str_less(a, b) ==
    LET x == str_key(a)
        y == str_key(b)
    IN \E n \in 1..4 : x[n] < y[n] /\ \A m \in 1..(n - 1) : x[m] = y[m]

\* sorted(raw, key=lambda e: e.get("commence_time", "")): stable, so an
\* element goes after every element whose key is not greater than its own
sorted_by_commence(raw) ==
    LET srt[n \in 0..Len(raw)] ==
            IF n = 0 THEN <<>>
            ELSE LET rest == srt[n - 1]
                     e == raw[n]
                     k == Cardinality({i \in DOMAIN rest :
                                          ~str_less(e.commence_time, rest[i].commence_time)})
                 IN SubSeq(rest, 1, k) \o <<e>> \o SubSeq(rest, k + 1, Len(rest))
    IN srt[Len(raw)]

\* the loop of the fallback of nfl_today
fallback_loop(evs) ==
    LET acc[i \in 0..Len(evs)] ==
            IF i = 0 THEN [r |-> "ok", games |-> <<>>]
            ELSE IF acc[i - 1].r # "ok" THEN acc[i - 1]
            ELSE add_game(acc[i - 1], evs[i])
    IN acc[Len(evs)]

\* the body of a handler after a 200 from upstream, up to cache_set:
\* [r |-> "ok" or the exception, games, fb |-> the fallback was entered]
Games(acc, fb) == [r |-> acc.r, games |-> acc.games, fb |-> fb]

weekend_games(raw, now) == Games(weekend_loop(raw, football_week_window(now)), FALSE)

\* lines 185-190: if not games, the first two of the sorted raw events
fallback_unsorted(raw, acc) ==
    IF acc.r # "ok" \/ acc.games # <<>> THEN Games(acc, FALSE)
    ELSE Games(fallback_loop(SubSeq(raw, 1, Min({2, Len(raw)}))), TRUE)

fallback(raw, acc) ==
    IF acc.r # "ok" \/ acc.games # <<>> THEN Games(acc, FALSE)
    ELSE Games(fallback_loop(SubSeq(sorted_by_commence(raw), 1, Min({2, Len(raw)}))), TRUE)

today_games(raw, now) == fallback(raw, today_loop(raw, now \div DAY))

handler_games(key, raw, now) ==
    IF key = "nfl_today" THEN today_games(raw, now) ELSE weekend_games(raw, now)

(* --------------------------- state machine ----------------------------- *)
(* clock   the reading of now_utc()                                        *)
(* cache   _cache: key -> Optional [data, exp]                             *)
(* apikey  ODDS_API_KEY is set                                             *)
(* pc      per request slot: "idle", or "await" while a request is         *)
(*         suspended in client.get                                         *)
(* req     the request of a slot: its number and the cache key of its      *)
(*         endpoint                                                        *)
(* calls   the upstream calls the request of a slot has issued             *)
(* out     what the last finished request returned                         *)
(* nreq    the requests started and the clock advances made so far         *)
(* call    the last call of a helper on its own, with its result           *)
Slots == 1..NSlots

\* upstream replies: 200, 429, another status, or no reply (-1: timeout,
\* connection error)
NetError == -1
Replies == {200, 429, 404, NetError}

NoReq == [id |-> 0, key |-> "-"]
NoOut == [id |-> 0, key |-> "-", kind |-> "none", status |-> 0, up |-> 0, calls |-> 0,
          body |-> <<>>, raw |-> <<>>, fb |-> FALSE]
NoCall == [fn |-> "none"]

\* the response of request id on the endpoint of key: kind "hit", "miss" or
\* "error", the HTTP status, the upstream reply it got (0: none), the upstream
\* calls it made, the body returned, the upstream list and whether the
\* fallback of nfl_today was entered
Response(id, key, kind, status, up, ncalls, body, raw, fb) ==
    [id |-> id, key |-> key, kind |-> kind, status |-> status, up |-> up, calls |-> ncalls,
     body |-> body, raw |-> raw, fb |-> fb]

\* a request takes the first idle slot when it has to wait for upstream
FreeSlot(r) == pc[r] = "idle" /\ \A q \in Slots : q < r => pc[q] # "idle"

\* a handler runs on the event loop without suspending until its await:
\* each action below is one such run
\* lines 155-156: the cache has the key and the entry is not expired
RequestHit(key, limit) ==
    /\ nreq.reqs < limit
    /\ cache_get(cache, now_utc, key) # None
    /\ out' = Response(nreq.reqs + 1, key, "hit", 200, 0, 0, cache_get(cache, now_utc, key), <<>>, FALSE)
    /\ nreq' = [nreq EXCEPT !.reqs = @ + 1]
    /\ UNCHANGED <<clock, cache, apikey, pc, req, calls, call>>

\* lines 73-74: a miss without ODDS_API_KEY raises HTTPException(500)
RequestNoKey(key, limit) ==
    /\ nreq.reqs < limit
    /\ cache_get(cache, now_utc, key) = None
    /\ ~apikey
    /\ out' = Response(nreq.reqs + 1, key, "error", 500, 0, 0, None, <<>>, FALSE)
    /\ nreq' = [nreq EXCEPT !.reqs = @ + 1]
    /\ UNCHANGED <<clock, cache, apikey, pc, req, calls, call>>

\* lines 75-78: a miss issues client.get and suspends
RequestFetch(r, key, limit) ==
    /\ FreeSlot(r) /\ nreq.reqs < limit
    /\ cache_get(cache, now_utc, key) = None
    /\ apikey
    /\ pc' = [pc EXCEPT ![r] = "await"]
    /\ req' = [req EXCEPT ![r] = [id |-> nreq.reqs + 1, key |-> key]]
    /\ calls' = [calls EXCEPT ![r] = 1]
    /\ nreq' = [nreq EXCEPT !.reqs = @ + 1]
    /\ UNCHANGED <<clock, cache, apikey, out, call>>

fetch_status_not200first(up) == IF up = NetError THEN 500 ELSE 502

\* lines 79-82: the reply is not a 200 (or never comes): the request fails
fetch_status(up) == IF up = 429 THEN 503 ELSE IF up = NetError THEN 500 ELSE 502

\* the request of slot r is over
Release(r) ==
    /\ pc' = [pc EXCEPT ![r] = "idle"]
    /\ req' = [req EXCEPT ![r] = NoReq]
    /\ calls' = [calls EXCEPT ![r] = 0]

ReplyError(r, up) ==
    /\ pc[r] = "await" /\ up # 200
    /\ out' = Response(req[r].id, req[r].key, "error", fetch_status(up), up, calls[r], None, <<>>, FALSE)
    /\ Release(r)
    /\ UNCHANGED <<clock, cache, apikey, nreq, call>>

\* lines 166-167, or the exception that ended the handler before them
Finish(r, raw, res) ==
    IF res.r = "ok"
    THEN /\ cache' = cache_set(cache, now_utc, req[r].key, [as_of |-> now_utc, games |-> res.games],
                               CACHE_TTL_SECS)
         /\ out' = Response(req[r].id, req[r].key, "miss", 200, 200, calls[r],
                            Some([as_of |-> now_utc, games |-> res.games]), raw, res.fb)
    ELSE /\ cache' = cache
         /\ out' = Response(req[r].id, req[r].key, "error", 500, 200, calls[r], None, raw, FALSE)

\* line 83 and the rest of the handler: filter, normalize, cache_set, return;
\* an exception on the way ends the request with a 500 and stores nothing
ReplyOk(r, raw) ==
    /\ pc[r] = "await"
    /\ Finish(r, raw, handler_games(req[r].key, raw, now_utc))
    /\ Release(r)
    /\ UNCHANGED <<clock, apikey, nreq, call>>

\* time passes
Tick(d, limit) ==
    /\ nreq.ticks < limit
    /\ clock' = clock + d
    /\ nreq' = [nreq EXCEPT !.ticks = @ + 1]
    /\ UNCHANGED <<cache, apikey, pc, req, calls, out, call>>

(* --------------------------- specifications ---------------------------- *)
\* Thursday noon of the first week: the window is [3 days, 8 days]
T0 == 3 * DAY + 12 * HOUR

EmptyCache == [k \in Keys |-> None]
IdleSlots ==
    /\ pc = [r \in Slots |-> "idle"]
    /\ req = [r \in Slots |-> NoReq]
    /\ calls = [r \in Slots |-> 0]
    /\ out = NoOut
    /\ nreq = [reqs |-> 0, ticks |-> 0]

\* bookmaker lists of an upstream event: one that normalizes, none at all,
\* one without totals, one whose h2h price is missing
GoodBooks == <<Book("Unknown Book", <<H2H>>), Book("DraftKings", <<H2H, SPREADS, TOTALS>>)>>
NoTotalsBooks == <<Book("DraftKings", <<H2H, SPREADS>>)>>
NoPriceBooks ==
    <<Book("DraftKings", <<Market("h2h", <<Outcome("A", NoVal, NoVal), Outcome("B", Num(260), NoVal)>>),
                           SPREADS, TOTALS>>)>>
FeedBooks == {GoodBooks, <<>>, NoTotalsBooks, NoPriceBooks}

\* commence_time values of an upstream event
FeedTimes ==
    {IsoZ(T0 + HOUR), IsoZ(2 * DAY), IsoOff(3 * DAY + 23 * HOUR, -5 * HOUR),
     Naive(T0), BadStr, Absent}

FeedEvents == {Event("A", "B", ct, bs) : ct \in FeedTimes, bs \in FeedBooks}
ShortFeedEvents == {Event("A", "B", IsoZ(T0 + HOUR), bs) : bs \in {GoodBooks, NoPriceBooks}}

(* Requests on the three endpoints interleaved with each other, with the   *)
(* upstream replies and with the clock.                                    *)
Init ==
    /\ clock = T0
    /\ cache = EmptyCache
    /\ apikey \in BOOLEAN
    /\ IdleSlots
    /\ call = NoCall

Next ==
    \/ \E k \in Keys : RequestHit(k, MaxReqs)
    \/ \E k \in Keys : RequestNoKey(k, MaxReqs)
    \/ \E r \in Slots, k \in Keys : RequestFetch(r, k, MaxReqs)
    \/ \E r \in Slots, up \in Replies : ReplyError(r, up)
    \/ \E r \in Slots : pc[r] = "await" /\ \E raw \in SeqUpTo(ShortFeedEvents, MaxRawShort) : ReplyOk(r, raw)
    \/ \E d \in {CACHE_TTL_SECS - 1, CACHE_TTL_SECS} : Tick(d, MaxTicks)

Spec == Init /\ [][Next]_vars

(* One request on an endpoint, that misses, over every upstream list.      *)
InitRequest ==
    /\ clock = T0
    /\ cache = EmptyCache
    /\ apikey = TRUE
    /\ IdleSlots
    /\ call = NoCall

NextRequest ==
    \/ \E k \in Keys : RequestFetch(1, k, 1)
    \/ pc[1] = "await" /\ \E raw \in SeqUpTo(FeedEvents, MaxRaw) : ReplyOk(1, raw)

SpecRequest == InitRequest /\ [][NextRequest]_vars

(* The helpers on their own: one call on an input of a bounded set.        *)
InitFn ==
    /\ clock = 0
    /\ cache = EmptyCache
    /\ apikey = TRUE
    /\ IdleSlots
    /\ call = NoCall

CallWindow(now) ==
    /\ call = NoCall
    /\ call' = [fn |-> "football_week_window", now |-> now, ret |-> football_week_window(now)]
    /\ UNCHANGED <<clock, cache, apikey, pc, req, calls, out, nreq>>

CallWithin(now, ct) ==
    /\ call = NoCall
    /\ LET w == football_week_window(now)
       IN call' = [fn |-> "within_window", ct |-> ct, start |-> w.start, end |-> w.end,
                   ret |-> within_window(ct, w.start, w.end)]
    /\ UNCHANGED <<clock, cache, apikey, pc, req, calls, out, nreq>>

CallChooseBook(bookmakers) ==
    /\ call = NoCall
    /\ call' = [fn |-> "choose_book", bookmakers |-> bookmakers, ret |-> choose_book(bookmakers)]
    /\ UNCHANGED <<clock, cache, apikey, pc, req, calls, out, nreq>>

CallMap(ev, book) ==
    /\ call = NoCall
    /\ call' = [fn |-> "map_event_to_game", ev |-> ev, book |-> book, ret |-> map_event_to_game(ev, book)]
    /\ UNCHANGED <<clock, cache, apikey, pc, req, calls, out, nreq>>

NextFn ==
    \/ call = NoCall /\ \E now \in Nows : CallWindow(now)
    \/ call = NoCall /\ \E now \in {T0, 8 * DAY} : \E ct \in CommencesAt(football_week_window(now).start,
                                                       football_week_window(now).end) : CallWithin(now, ct)
    \/ call = NoCall /\ \E bs \in BookLists : CallChooseBook(bs)
    \/ call = NoCall /\ \E ev \in NormalizerEvents, book \in NormalizerBooks : CallMap(ev, book)

SpecFn == InitFn /\ [][NextFn]_vars

(* The cache on its own: sets with any ttl, gets and the clock.  call      *)
(* keeps, for each key, the last cache_set made on it.                     *)
InitCache ==
    /\ clock = T0
    /\ cache = EmptyCache
    /\ apikey = TRUE
    /\ IdleSlots
    /\ call = [fn |-> "none", key |-> "-", ret |-> None, last |-> [k \in Keys |-> None]]

CacheSet(key, data, ttl) ==
    /\ nreq.reqs < MaxSets
    /\ cache' = cache_set(cache, now_utc, key, data, ttl)
    /\ call' = [fn |-> "cache_set", key |-> key, ret |-> None,
                last |-> [call.last EXCEPT ![key] = Some([at |-> now_utc, data |-> data, ttl |-> ttl])]]
    /\ nreq' = [nreq EXCEPT !.reqs = @ + 1]
    /\ UNCHANGED <<clock, apikey, pc, req, calls, out>>

CacheGet(key) ==
    /\ call' = [call EXCEPT !.fn = "cache_get", !.key = key, !.ret = cache_get(cache, now_utc, key)]
    /\ UNCHANGED <<clock, cache, apikey, pc, req, calls, out, nreq>>

CacheTick(d) ==
    /\ nreq.ticks < MaxTicks
    /\ clock' = clock + d
    /\ nreq' = [nreq EXCEPT !.ticks = @ + 1]
    /\ call' = [call EXCEPT !.fn = "none", !.key = "-", !.ret = None]
    /\ UNCHANGED <<cache, apikey, pc, req, calls, out>>

NextCache ==
    \/ \E k \in Keys, data \in {"v1", "v2"}, ttl \in {CACHE_TTL_SECS, 1} : CacheSet(k, data, ttl)
    \/ \E k \in Keys : CacheGet(k)
    \/ \E d \in {1, CACHE_TTL_SECS - 1, CACHE_TTL_SECS} : CacheTick(d)

SpecCache == InitCache /\ [][NextCache]_vars

(* ------------------------------ properties ----------------------------- *)
\* the entry of key k is there and not expired
Live(k) == cache[k] # None /\ clock < cache[k][1].exp
\* a request finishes in this step
Finishes == out'.id # out.id
\* slot r takes a request in this step, which waits for upstream
Fetches(r) == pc[r] = "idle" /\ pc'[r] = "await"
\* the request of slot r finishes in this step
Replied(r) == pc[r] = "await" /\ pc'[r] = "idle"

\* C1: on each endpoint and under any interleaving, a request that finds an
\* unexpired entry under its key returns that entry's payload, issues no
\* upstream fetch and leaves the cache unchanged; a request fetches only on a
\* miss, and when it succeeds it stores its response under its own key only,
\* with the default ttl, and returns that response.
C1_ReadThrough ==
    [][/\ (Finishes /\ out'.kind = "hit") =>
              /\ Live(out'.key) /\ out'.status = 200
              /\ out'.body = Some(cache[out'.key][1].data)
              /\ out'.calls = 0 /\ calls' = calls /\ pc' = pc
              /\ cache' = cache
       /\ (Finishes /\ out'.kind # "hit" /\ pc' = pc) => ~Live(out'.key)
       /\ \A r \in Slots :
              /\ Fetches(r) => (~Live(req'[r].key) /\ calls'[r] = 1 /\ ~Finishes)
              /\ calls'[r] > calls[r] => Fetches(r)
              /\ Replied(r) => (Finishes /\ out'.id = req[r].id /\ out'.key = req[r].key)
              /\ (Replied(r) /\ out'.kind = "miss") =>
                     /\ calls[r] = 1 /\ out'.calls = 1 /\ out'.status = 200
                     /\ cache'[req[r].key] =
                            Some([data |-> out'.body[1], exp |-> clock + CACHE_TTL_SECS])
                     /\ \A k \in Keys \ {req[r].key} : cache'[k] = cache[k]
       /\ (Finishes /\ out'.kind = "miss") => \E r \in Slots : Replied(r)
      ]_vars

\* C1 witness: the second request was served from the cache, 44 seconds after
\* the first one stored its games there
C1_Witness ==
    /\ out.kind = "hit" /\ out.id = 2
    /\ cache[out.key] # None /\ out.body = Some(cache[out.key][1].data)
    /\ out.body[1].games # <<>>
    /\ clock = out.body[1].as_of + CACHE_TTL_SECS - 1

\* C9: a fetch failure ends the request with the status of its kind (no API
\* key: 500 and no upstream call; upstream 429: 503; another status that is
\* not 200: 502), returns no games, leaves the cache unchanged and makes at
\* most one upstream call; a request that then finds no unexpired entry
\* fetches again.
C9_FetchFailure ==
    [][/\ (Finishes /\ out'.kind = "error" /\ out'.up # 200) =>
              /\ cache' = cache /\ out'.body = None /\ out'.calls <= 1
              /\ (out'.up = 0 <=> ~apikey)
              /\ (out'.up = 0 => (out'.status = 500 /\ out'.calls = 0 /\ calls' = calls))
              /\ (out'.up = 429 => out'.status = 503)
              /\ (out'.up \notin {0, 429, NetError} => out'.status = 502)
       /\ (nreq'.reqs # nreq.reqs /\ ~apikey) =>
              /\ Finishes /\ calls' = calls /\ pc' = pc
              /\ out'.kind = "hit" \/ (out'.kind = "error" /\ out'.status = 500 /\ out'.up = 0)
       /\ (nreq'.reqs # nreq.reqs /\ apikey /\ Finishes) => (out'.kind = "hit" /\ Live(out'.key))
       /\ (nreq'.reqs # nreq.reqs /\ apikey /\ ~Finishes) =>
              \E r \in Slots : Fetches(r) /\ ~Live(req'[r].key) /\ calls'[r] = 1
      ]_vars

\* C9 witness: a request failed with 503 on an upstream 429, nothing is cached
\* for its key, and a later request for the same key is fetching upstream
C9_Witness ==
    /\ out.kind = "error" /\ out.up = 429 /\ out.status = 503 /\ out.calls = 1
    /\ cache[out.key] = None
    /\ \E r \in Slots : pc[r] = "await" /\ req[r].key = out.key /\ req[r].id > out.id

\* C2: after cache_set(key, value, ttl) at time t, cache_get(key) returns value
\* at every time before t + ttl and absent at every time from t + ttl on, until
\* the next cache_set on the key; the expired entry remains in the map as it
\* was stored; a key never set is absent.
C2_CacheTtl ==
    call.fn = "cache_get" =>
        LET last == call.last[call.key]
        IN IF last = None THEN call.ret = None /\ cache[call.key] = None
           ELSE /\ cache[call.key] = Some([data |-> last[1].data, exp |-> last[1].at + last[1].ttl])
                /\ (clock < last[1].at + last[1].ttl => call.ret = Some(last[1].data))
                /\ (clock >= last[1].at + last[1].ttl => call.ret = None)

\* C2 witness: a get exactly ttl = 45 seconds after the set finds the key
\* absent, and the entry is still in the map
C2_Witness ==
    /\ call.fn = "cache_get" /\ call.last[call.key] # None
    /\ call.last[call.key][1].ttl = CACHE_TTL_SECS
    /\ clock = call.last[call.key][1].at + CACHE_TTL_SECS
    /\ call.ret = None /\ cache[call.key] # None

\* the event raw[i] yields a game: it has a bookmaker and normalizes with it
Yields(raw, i) ==
    /\ choose_book(raw[i].bookmakers) # None
    /\ map_event_to_game(raw[i], choose_book(raw[i].bookmakers)[1]).t = "game"
GameOf(raw, i) == map_event_to_game(raw[i], choose_book(raw[i].bookmakers)[1]).g[1]

\* C3: a request that misses and whose events all carry a well-formed
\* commence_time never fails because an event does not normalize: it succeeds
\* and every game of its response is the game of a raw event.
C3_NormalizationIsLocal ==
    (/\ out.kind \in {"miss", "error"} /\ out.up = 200
     /\ \A i \in DOMAIN out.raw : out.raw[i].commence_time.k = "iso") =>
        /\ out.kind = "miss" /\ out.status = 200
        /\ \A n \in DOMAIN out.body[1].games :
               \E i \in DOMAIN out.raw :
                   Yields(out.raw, i) /\ GameOf(out.raw, i) = out.body[1].games[n]

\* the events of raw that sorted(raw, key=commence_time)[:2] keeps: those with
\* fewer than two events before them, by commence_time as a string and then
\* by position
Before(raw, j, i) ==
    \/ str_less(raw[j].commence_time, raw[i].commence_time)
    \/ ~str_less(raw[i].commence_time, raw[j].commence_time) /\ j < i
FirstTwo(raw) == {i \in DOMAIN raw : Cardinality({j \in DOMAIN raw : Before(raw, j, i)}) < 2}
GamesOf(raw, i) == IF Yields(raw, i) THEN <<GameOf(raw, i)>> ELSE <<>>
FirstTwoGames(raw) ==
    LET T == FirstTwo(raw)
        a == CHOOSE i \in T : \A j \in T : ~Before(raw, j, i)
        b == CHOOSE i \in T : i # a
    IN CASE Cardinality(T) = 0 -> <<>>
         [] Cardinality(T) = 1 -> GamesOf(raw, a)
         [] OTHER -> GamesOf(raw, a) \o GamesOf(raw, b)

\* the commence_time of raw[i] parses and the calendar day it is written with
\* is the day `today`
DatedToday(raw, i, today) ==
    raw[i].commence_time.k \in {"iso", "naive"} /\ raw[i].commence_time.wall \div DAY = today
\* the instant of raw[i] falls on the UTC day `today`
OnUtcDay(raw, i, today) ==
    /\ raw[i].commence_time.k = "iso"
    /\ (raw[i].commence_time.wall - raw[i].commence_time.off) \div DAY = today

C5_HalfOpenWindow ==
    (call.fn = "within_window" /\ call.ct.k = "iso") =>
        /\ call.ret.r = "ok"
        /\ call.ret.v <=> (call.start <= call.ct.wall - call.ct.off /\ call.ct.wall - call.ct.off < call.end)

\* C6 (as claimed): for a commence_time that is no well-formed instant (not a
\* timestamp, empty, null, or without UTC offset) within_window returns false
\* and does not raise.
C6_MalformedIsFalse ==
    (call.fn = "within_window" /\ call.ct.k # "iso") => (call.ret.r = "ok" /\ call.ret.v = FALSE)

\* C7: when map_event_to_game yields a game, with h the first spreads outcome
\* named after the home team or "Home" and a the first named after the away
\* team or "Away": favorite is the home team exactly when h's point is less
\* than a's, and the away team otherwise; line is the absolute value of the
\* favorite side's point; price is that side's price as an integer.
C7_SpreadFavorite ==
    (call.fn = "map_event_to_game" /\ call.ret.t = "game") =>
        LET ms == call.book.markets
            os == ms[Max({i \in DOMAIN ms : ms[i].key = "spreads"})].outcomes
            h == os[Min({i \in DOMAIN os : os[i].name \in {call.ev.home_team, "Home"}})]
            a == os[Min({i \in DOMAIN os : os[i].name \in {call.ev.away_team, "Away"}})]
            spread == call.ret.g[1].spread
        IN /\ h.point.t \in {"num", "str"} /\ a.point.t \in {"num", "str"}
           /\ spread.line >= 0
           /\ h.point.h < a.point.h =>
                  /\ spread.favorite = call.ev.home_team
                  /\ spread.line = (IF h.point.h < 0 THEN -h.point.h ELSE h.point.h)
                  /\ 2 * spread.price <= h.price.h + 1 /\ 2 * spread.price >= h.price.h - 1
                  /\ (h.price.h % 2 = 0 => 2 * spread.price = h.price.h)
           /\ h.point.h >= a.point.h =>
                  /\ spread.favorite = call.ev.away_team
                  /\ spread.line = (IF a.point.h < 0 THEN -a.point.h ELSE a.point.h)
                  /\ 2 * spread.price <= a.price.h + 1 /\ 2 * spread.price >= a.price.h - 1
                  /\ (a.price.h % 2 = 0 => 2 * spread.price = a.price.h)

\* C7 witness: both sides at the same point -3.5, the away team is the
\* favorite with line 3.5, and the home outcome is found under "Home"
C7_Witness ==
    /\ call.fn = "map_event_to_game" /\ call.ret.t = "game"
    /\ Len(call.book.markets[2].outcomes) = 3
    /\ call.book.markets[2].outcomes[1].name = "Away"
    /\ call.book.markets[2].outcomes[2].name = "Home"
    /\ call.book.markets[2].outcomes[1].point = Num(-7)
    /\ call.book.markets[2].outcomes[2].point = Num(-7)
    /\ call.ret.g[1].spread.favorite = "B" /\ call.ret.g[1].spread.line = 7

\* C8: choose_book returns none for an empty list; otherwise the bookmaker
\* titled with the earliest entry of the priority list that is a title of the
\* input, the last one of that title, and the first bookmaker of the input
\* when no title is in the list; the result is an element of the input.
C8_ChooseBook ==
    call.fn = "choose_book" =>
        LET bs == call.bookmakers
            present == {i \in DOMAIN BOOK_PRIORITY : \E j \in DOMAIN bs : bs[j].title = BOOK_PRIORITY[i]}
        IN IF bs = <<>> THEN call.ret = None
           ELSE /\ call.ret # None
                /\ \E j \in DOMAIN bs : bs[j] = call.ret[1]
                /\ present = {} => call.ret[1] = bs[1]
                /\ present # {} =>
                       \E j \in DOMAIN bs :
                           /\ call.ret[1] = bs[j]
                           /\ bs[j].title = BOOK_PRIORITY[Min(present)]
                           /\ \A n \in DOMAIN bs : n > j => bs[n].title # bs[j].title

\* C8 witness: FanDuel first, then two different DraftKings bookmakers: the
\* second DraftKings is chosen
C8_Witness ==
    /\ call.fn = "choose_book" /\ Len(call.bookmakers) = 3
    /\ call.bookmakers[1].title = "FanDuel"
    /\ call.bookmakers[2].title = "DraftKings" /\ call.bookmakers[3].title = "DraftKings"
    /\ call.bookmakers[2] # call.bookmakers[3]
    /\ call.ret = Some(call.bookmakers[3])

====
